---- MODULE Spec2Model ----
(***************************************************************************)
(* Model of terraform-provider-vezor: the API client of                    *)
(* internal/client/client.go, the provider configuration of                *)
(* internal/provider/provider.go and the Read of the two data sources,     *)
(* internal/provider/group_data_source.go and secret_data_source.go.       *)
(*                                                                         *)
(* Text is modelled as a sequence of pieces (Str): a piece is a non-empty  *)
(* run of characters, and concatenation is \o.  The literal parts of a     *)
(* format string are one piece each; names are spelled character by        *)
(* character because strings.EqualFold reads them so; "/" and the control  *)
(* character "\n" are always pieces of their own.                          *)
(***************************************************************************)
EXTENDS Integers, Sequences, FiniteSets, TLC

VARIABLES
    tm,        \* tagsMatch applied to a pair of mappings: its arguments and result
    pcfg,      \* provider Configure: environment, configuration, response
    client,    \* the *Client built by NewClient: BaseURL, APIKey, Timeout
    call,      \* the client operation being executed and its arguments
    pc,        \* where the operation stands: idle, waiting on HTTPClient.Do, done
    built,     \* every reqURL doRequest has built during the call, in order
    requests,  \* every request handed to HTTPClient.Do during the call, in order
    replies,   \* what came back for each of them, in order
    outcome,   \* what the operation returned
    given,     \* the arguments NewClient was called with
    ds         \* a data source: its client and Configure diagnostics, and its Read's
               \* configuration, client calls, diagnostics and state

vars == <<tm, pcfg, client, call, pc, built, requests, replies, outcome, given, ds>>

clientVars == <<client, call, pc, built, requests, replies, outcome, given>>

----------------------------------------------------------------------------
(* Go maps.  A mapping is a function from a finite set of keys; reading a  *)
(* key the map does not hold yields the zero value, the empty string.  The *)
(* nil map reads like the empty map and is a value of its own.             *)

EmptyMap == <<>>

\* the nil map[string]string, the zero value of a map field; no map has this one entry
NilMap == [nil |-> <<"map[string]string(nil)">>]

\* the keys a range over m visits
Keys(m) == IF m = NilMap THEN {} ELSE DOMAIN m

\* m[k] on a Go map[string]string
MapGet(m, k) == IF k \in Keys(m) THEN m[k] ELSE <<>>

\* m[k] = v on a Go map (url.Values.Set replaces whatever k held)
MapSet(m, k, v) == [x \in (DOMAIN m) \cup {k} |-> IF x = k THEN v ELSE m[x]]

\* every mapping from a subset of keys into vals
MapsOver(keys, vals) == UNION {[d -> vals] : d \in SUBSET keys}

----------------------------------------------------------------------------
(* tagsMatch, client.go:214-222 *)

tagsMatch(secretTags, requiredTags) ==
    \A k \in Keys(requiredTags) : MapGet(secretTags, k) = requiredTags[k]

----------------------------------------------------------------------------
(* Text *)

\* the Go string "" and a Go string of one piece
Empty == <<>>

\* strings.TrimRight(s, "/"), client.go:64: every trailing "/" goes
RECURSIVE TrimRight(_)
TrimRight(s) ==
    IF s # <<>> /\ s[Len(s)] = "/" THEN TrimRight(SubSeq(s, 1, Len(s) - 1)) ELSE s

\* unicode.SimpleFold brought to one representative per orbit, for the letters in use
FoldChar(c) ==
    CASE c = "A" -> "a"
      [] c = "B" -> "b"
      [] c = "D" -> "d"
      [] OTHER -> c

\* strings.EqualFold(s, t), client.go:166
EqualFold(s, t) ==
    /\ Len(s) = Len(t)
    /\ \A i \in 1..Len(s) : FoldChar(s[i]) = FoldChar(t[i])

\* url.PathEscape on one piece, client.go:180 and :197
PathEscapePiece(c) ==
    CASE c = "/" -> "%2F"
      [] c = " " -> "%20"
      [] c = "\n" -> "%0A"
      [] OTHER -> c

PathEscape(s) == [i \in 1..Len(s) |-> PathEscapePiece(s[i])]

\* url.QueryEscape on one piece, inside url.Values.Encode, client.go:76
QueryEscapePiece(c) ==
    CASE c = "/" -> "%2F"
      [] c = " " -> "+"
      [] c = "\n" -> "%0A"
      [] c = "a&b" -> "a%26b"
      [] OTHER -> c

QueryEscape(s) == [i \in 1..Len(s) |-> QueryEscapePiece(s[i])]

\* fmt.Sprintf("%d", n)
Itoa(n) == <<ToString(n)>>

\* the query keys the client can send, in the byte order url.Values.Encode sorts them in
KeyOrder == <<"app", "env", "format", "limit", "search", "version">>

\* url.Values.Encode: key=value pairs joined by "&", keys sorted
RECURSIVE EncodeFrom(_, _, _)
EncodeFrom(params, i, first) ==
    IF i > Len(KeyOrder) THEN <<>>
    ELSE IF KeyOrder[i] \in DOMAIN params
         THEN (IF first THEN <<>> ELSE <<"&">>)
              \o <<KeyOrder[i], "=">> \o QueryEscape(params[KeyOrder[i]])
              \o EncodeFrom(params, i + 1, FALSE)
         ELSE EncodeFrom(params, i + 1, first)

Encode(params) == EncodeFrom(params, 1, TRUE)

\* url.Parse inside http.NewRequest, client.go:79: a control character is refused
ValidURL(u) == \A i \in 1..Len(u) : u[i] # "\n"

----------------------------------------------------------------------------
(* JSON.  A response body is either text that is no JSON at all or a JSON  *)
(* value; BodyText gives its bytes back.                                   *)

JNull == [k |-> "null", v |-> <<>>]
JStr(s) == [k |-> "string", v |-> s]
JNum(n) == [k |-> "number", v |-> n]
JObj(f) == [k |-> "object", v |-> f]
JArr(s) == [k |-> "array", v |-> s]
NotJSON(text) == [k |-> "invalid", v |-> text]

\* the member names in the order the bodies are written in
FieldOrder ==
    <<"error", "id", "key_name", "name", "group", "value", "description", "tags",
      "version", "secrets", "total", "count", "created_at", "updated_at", "app", "env",
      "limit", "search", "A", "B">>

RECURSIVE RenderJSON(_)
RECURSIVE RenderMembers(_, _, _)
RECURSIVE RenderElements(_, _)
RenderJSON(j) ==
    CASE j.k = "null" -> <<"null">>
      [] j.k = "string" -> <<"\"">> \o j.v \o <<"\"">>
      [] j.k = "number" -> Itoa(j.v)
      [] j.k = "object" -> <<"{">> \o RenderMembers(j.v, 1, TRUE) \o <<"}">>
      [] j.k = "array" -> <<"[">> \o RenderElements(j.v, 1) \o <<"]">>

RenderMembers(f, i, first) ==
    IF i > Len(FieldOrder) THEN <<>>
    ELSE IF FieldOrder[i] \in DOMAIN f
         THEN (IF first THEN <<>> ELSE <<",">>)
              \o <<"\"", FieldOrder[i], "\"", ":">> \o RenderJSON(f[FieldOrder[i]])
              \o RenderMembers(f, i + 1, FALSE)
         ELSE RenderMembers(f, i + 1, first)

RenderElements(s, i) ==
    IF i > Len(s) THEN <<>>
    ELSE (IF i = 1 THEN <<>> ELSE <<",">>) \o RenderJSON(s[i]) \o RenderElements(s, i + 1)

\* string(body), client.go:103
BodyText(body) == IF body.k = "invalid" THEN body.v ELSE RenderJSON(body)

\* a member of a JSON object; a member that is absent leaves the Go field alone, as null does
Member(j, f) == IF j.k = "object" /\ f \in DOMAIN j.v THEN j.v[f] ELSE JNull

\* encoding/json into a Go string, int, map[string]string: does the value fit, and what is stored
FitsString(j) == j.k \in {"string", "null"}
AsString(j) == IF j.k = "string" THEN j.v ELSE Empty
FitsInt(j) == j.k \in {"number", "null"}
AsInt(j) == IF j.k = "number" THEN j.v ELSE 0
FitsMap(j) == j.k = "null" \/ (j.k = "object" /\ \A f \in DOMAIN j.v : FitsString(j.v[f]))
AsMap(j) == IF j.k = "object" THEN [f \in DOMAIN j.v |-> AsString(j.v[f])] ELSE NilMap

\* the json.SyntaxError of a body that starts with the letter I
SyntaxError == <<"invalid character 'I' looking for beginning of value">>

----------------------------------------------------------------------------
(* The result shapes, client.go:20-59, and json.Unmarshal into each.  An   *)
(* Unmarshal yields the error text (Empty for nil) and the value stored.   *)

\* a JSON value decoded into a struct: null and objects are taken, members checked one by one
SecretFits(j) ==
    /\ j.k \in {"null", "object"}
    /\ \A f \in {"id", "key_name", "value", "description", "created_at", "updated_at"} :
           FitsString(Member(j, f))
    /\ FitsMap(Member(j, "tags"))
    /\ FitsInt(Member(j, "version"))

SecretOf(j) ==
    [ID |-> AsString(Member(j, "id")),
     KeyName |-> AsString(Member(j, "key_name")),
     Value |-> AsString(Member(j, "value")),
     Description |-> AsString(Member(j, "description")),
     Tags |-> AsMap(Member(j, "tags")),
     Version |-> AsInt(Member(j, "version")),
     CreatedAt |-> AsString(Member(j, "created_at")),
     UpdatedAt |-> AsString(Member(j, "updated_at"))]

SecretsFit(j) ==
    j.k = "null" \/ (j.k = "array" /\ \A i \in 1..Len(j.v) : SecretFits(j.v[i]))

SecretsOf(j) == IF j.k = "array" THEN [i \in 1..Len(j.v) |-> SecretOf(j.v[i])] ELSE <<>>

SecretsListResponseFits(j) ==
    /\ j.k \in {"null", "object"}
    /\ SecretsFit(Member(j, "secrets"))
    /\ FitsInt(Member(j, "total"))

SecretsListResponseOf(j) ==
    [Secrets |-> SecretsOf(Member(j, "secrets")), Total |-> AsInt(Member(j, "total"))]

GroupFits(j) ==
    /\ j.k \in {"null", "object"}
    /\ \A f \in {"id", "name", "description", "created_at", "updated_at"} :
           FitsString(Member(j, f))
    /\ FitsMap(Member(j, "tags"))

GroupOf(j) ==
    [ID |-> AsString(Member(j, "id")),
     Name |-> AsString(Member(j, "name")),
     Description |-> AsString(Member(j, "description")),
     Tags |-> AsMap(Member(j, "tags")),
     CreatedAt |-> AsString(Member(j, "created_at")),
     UpdatedAt |-> AsString(Member(j, "updated_at"))]

GroupSecretsFits(j) ==
    /\ j.k \in {"null", "object"}
    /\ FitsString(Member(j, "group"))
    /\ FitsMap(Member(j, "tags"))
    /\ FitsMap(Member(j, "secrets"))
    /\ FitsInt(Member(j, "count"))

GroupSecretsOf(j) ==
    [Group |-> AsString(Member(j, "group")),
     Tags |-> AsMap(Member(j, "tags")),
     Secrets |-> AsMap(Member(j, "secrets")),
     Count |-> AsInt(Member(j, "count"))]

ErrorResponseFits(j) == j.k \in {"null", "object"} /\ FitsString(Member(j, "error"))

ErrorResponseOf(j) == [Error |-> AsString(Member(j, "error"))]

\* the Go type of each member of the result shapes, by its json name, client.go:20-59
FieldTypes(struct) ==
    CASE struct = "Secret" ->
           [id |-> "string", key_name |-> "string", value |-> "string",
            description |-> "string", tags |-> "map[string]string", version |-> "int",
            created_at |-> "string", updated_at |-> "string"]
      [] struct = "Group" ->
           [id |-> "string", name |-> "string", description |-> "string",
            tags |-> "map[string]string", created_at |-> "string", updated_at |-> "string"]
      [] struct = "GroupSecrets" ->
           [group |-> "string", tags |-> "map[string]string",
            secrets |-> "map[string]string", count |-> "int"]
      [] struct = "SecretsListResponse" -> [secrets |-> "[]client.Secret", total |-> "int"]
      [] struct = "ErrorResponse" -> [error |-> "string"]

\* reflect.Type.String() of a type of the client package
TypeString(type) ==
    IF type \in {"Secret", "Group", "GroupSecrets", "SecretsListResponse", "ErrorResponse"}
    THEN <<"client.", type>> ELSE <<type>>

\* json.UnmarshalTypeError.Error(): value is the kind of the JSON value, struct and field
\* the struct being decoded and the path of json names down to the member (none at the top)
UnmarshalTypeErrorText(value, type, struct, field) ==
    IF field = <<>>
    THEN <<"json: cannot unmarshal ", value, " into Go value of type ">> \o TypeString(type)
    ELSE <<"json: cannot unmarshal ", value, " into Go struct field ", struct, ".">> \o field
         \o <<" of type ">> \o TypeString(type)

\* json.Unmarshal of a JSON value into a Go value of the given type, met inside struct at
\* field: the first UnmarshalTypeError in the order of the document, Empty when there is
\* none.  The decoder goes on after a mismatch and returns the first it saved.
RECURSIVE ValueError(_, _, _, _)
RECURSIVE MembersError(_, _, _, _)
RECURSIVE MapError(_, _, _, _)
RECURSIVE ElementsError(_, _, _, _)
ValueError(j, type, struct, field) ==
    LET mismatch == UnmarshalTypeErrorText(j.k, type, struct, field) IN
    CASE j.k = "null" -> Empty
      [] j.k # "null" /\ type = "string" -> IF j.k = "string" THEN Empty ELSE mismatch
      [] j.k # "null" /\ type = "int" -> IF j.k = "number" THEN Empty ELSE mismatch
      [] j.k # "null" /\ type = "map[string]string" ->
           IF j.k = "object" THEN MapError(j.v, 1, struct, field) ELSE mismatch
      [] j.k # "null" /\ type = "[]client.Secret" ->
           IF j.k = "array" THEN ElementsError(j.v, 1, struct, field) ELSE mismatch
      [] OTHER -> IF j.k = "object" THEN MembersError(j.v, 1, type, field) ELSE mismatch

\* the members of an object decoded into a struct; members the struct does not have are skipped
MembersError(f, i, struct, field) ==
    IF i > Len(FieldOrder) THEN Empty
    ELSE LET name == FieldOrder[i]
             e == IF name \in DOMAIN f /\ name \in DOMAIN FieldTypes(struct)
                  THEN ValueError(f[name], FieldTypes(struct)[name], struct,
                                  (IF field = <<>> THEN <<>> ELSE field \o <<".">>) \o <<name>>)
                  ELSE Empty
         IN  IF e # Empty THEN e ELSE MembersError(f, i + 1, struct, field)

\* the members of an object decoded into a map[string]string
MapError(f, i, struct, field) ==
    IF i > Len(FieldOrder) THEN Empty
    ELSE LET e == IF FieldOrder[i] \in DOMAIN f
                  THEN ValueError(f[FieldOrder[i]], "string", struct, field)
                  ELSE Empty
         IN  IF e # Empty THEN e ELSE MapError(f, i + 1, struct, field)

\* the elements of an array decoded into a []Secret
ElementsError(s, i, struct, field) ==
    IF i > Len(s) THEN Empty
    ELSE LET e == ValueError(s[i], "Secret", struct, field)
         IN  IF e # Empty THEN e ELSE ElementsError(s, i + 1, struct, field)

\* the UnmarshalTypeError of json.Unmarshal(body, &x) for x of the struct type target
TypeError(target, body) == ValueError(body, target, target, <<>>)

\* json.Unmarshal(body, &x): the error it returns, given whether the value fits x
UnmarshalError(body, fits, target) ==
    IF body.k = "invalid" THEN SyntaxError ELSE IF fits THEN Empty ELSE TypeError(target, body)

----------------------------------------------------------------------------
(* NewClient and doRequest, client.go:61-107 *)

TimeoutSeconds == 30

\* a plausible slip: strings.TrimSuffix, which takes one "/" only
NewClient_TrimSuffix(baseURL, apiKey) ==
    [BaseURL |-> IF baseURL # <<>> /\ baseURL[Len(baseURL)] = "/"
                 THEN SubSeq(baseURL, 1, Len(baseURL) - 1) ELSE baseURL,
     APIKey |-> apiKey,
     Timeout |-> TimeoutSeconds]

NewClient(baseURL, apiKey) ==
    [BaseURL |-> TrimRight(baseURL), APIKey |-> apiKey, Timeout |-> TimeoutSeconds]

\* reqURL, client.go:74-77
RequestURL(c, endpoint, params) ==
    c.BaseURL \o endpoint
    \o (IF DOMAIN params # {} THEN <<"?">> \o Encode(params) ELSE <<>>)

\* the request handed to HTTPClient.Do, client.go:79-87.  query is req.URL.Query(), the
\* parameters Encode wrote behind the "?": one value per key, as the callers only use Set
NewRequest(c, reqURL, params) ==
    [method |-> "GET",
     url |-> reqURL,
     query |-> params,
     authorization |-> <<"Bearer ">> \o c.APIKey,
     contentType |-> "application/json"]

\* what an operation returns: the line of the return statement taken, the error text
\* (Empty for nil) and the value (<<>> for nil, <<x>> for &x)
Returned(line, err, val) == [line |-> line, err |-> err, val |-> val]

NothingReturned == Returned(0, Empty, <<>>)

\* %q of one piece of text: the control character is written as backslash n
QuotePiece(c) == IF c = "\n" THEN "\\n" ELSE c

\* fmt's %q of a text without quotes or backslashes of its own
Quote(t) == <<"\"">> \o [i \in 1..Len(t) |-> QuotePiece(t[i])] \o <<"\"">>

\* what HTTPClient.Do and io.ReadAll can come back with
TransportFailure == [kind |-> "transport", status |-> 0, body |-> JNull]
BodyReadFailure == [kind |-> "read", status |-> 0, body |-> JNull]
Response(status, body) == [kind |-> "http", status |-> status, body |-> body]

\* HTTPClient.Do(req), client.go:87: a response, or an error, which is a *url.Error
\* naming the method and the URL of the request: Get "<url>": <cause>
Do(req, reply) ==
    IF reply.kind = "transport"
    THEN [kind |-> "transport", status |-> 0, body |-> JNull,
          err |-> <<"Get ">> \o Quote(req.url)
                  \o <<": ", "dial tcp 192.0.2.1:443: connect: connection refused">>]
    ELSE reply

\* the error value of client.go:101 and :103
APIErrorText(status, message) == <<"API error (">> \o Itoa(status) \o <<"): ">> \o message

\* doRequest from the return of HTTPClient.Do on, client.go:87-106; val holds the body
doRequestReturn(reply) ==
    CASE reply.kind = "transport" ->
           Returned(89, <<"request failed: ">> \o reply.err, <<>>)
      [] reply.kind = "read" ->
           Returned(95, <<"failed to read response body: ", "unexpected EOF">>, <<>>)
      [] reply.kind = "http" /\ reply.status >= 400 ->
           IF /\ UnmarshalError(reply.body, ErrorResponseFits(reply.body), "ErrorResponse") = Empty
              /\ ErrorResponseOf(reply.body).Error # Empty
           THEN Returned(101, APIErrorText(reply.status, ErrorResponseOf(reply.body).Error), <<>>)
           ELSE Returned(103, APIErrorText(reply.status, BodyText(reply.body)), <<>>)
      [] OTHER -> Returned(106, Empty, <<reply.body>>)

\* doRequest when http.NewRequest refuses the URL, client.go:79-82; the url.Error reads
\* parse "<url>": net/url: invalid control character in URL
CreateFailure(reqURL) ==
    Returned(81, <<"failed to create request: ", "parse ">> \o Quote(reqURL)
                 \o <<": net/url: invalid control character in URL">>, <<>>)

----------------------------------------------------------------------------
(* The four operations and FindSecret, client.go:109-212 *)

GetSecretEndpoint(secretID) == <<"/", "api", "/", "v1", "/", "secrets", "/">> \o secretID

\* version is a *int: <<>> for nil, <<n>> for &n
GetSecretParams(version) ==
    IF version # <<>> THEN MapSet(EmptyMap, "version", Itoa(version[1])) ELSE EmptyMap

\* GetSecret from the return of doRequest on, client.go:117-127
GetSecretReturn(reply) ==
    LET r == doRequestReturn(reply) IN
    IF r.err # Empty THEN r
    ELSE LET e == UnmarshalError(r.val[1], SecretFits(r.val[1]), "Secret") IN
         IF e # Empty
         THEN Returned(124, <<"failed to parse secret response: ">> \o e, <<>>)
         ELSE Returned(127, Empty, <<SecretOf(r.val[1])>>)

ListSecretsEndpoint == <<"/", "api", "/", "v1", "/", "secrets">>

\* params, client.go:132-141: the tags first, then search, then limit, each with Set
ListSecretsParams(tags, search, limit) ==
    LET withTags == [k \in Keys(tags) |-> tags[k]]
        withSearch == IF search # Empty THEN MapSet(withTags, "search", search) ELSE withTags
    IN  IF limit > 0 THEN MapSet(withSearch, "limit", Itoa(limit)) ELSE withSearch

\* ListSecrets from the return of doRequest on, client.go:143-153
ListSecretsReturn(reply) ==
    LET r == doRequestReturn(reply) IN
    IF r.err # Empty THEN r
    ELSE LET e == UnmarshalError(r.val[1], SecretsListResponseFits(r.val[1]), "SecretsListResponse") IN
         IF e # Empty
         THEN Returned(150, <<"failed to parse secrets list response: ">> \o e, <<>>)
         ELSE Returned(153, Empty, <<SecretsListResponseOf(r.val[1])>>)

FindSecretLimit == 100

\* a plausible slip: the tags are not looked at
Matches_NameOnly(s, name, tags) == EqualFold(s.KeyName, name)

\* the test of client.go:166-168 on one entry of the list
Matches(s, name, tags) == EqualFold(s.KeyName, name) /\ tagsMatch(s.Tags, tags)

\* a plausible slip: the loop keeps the last match instead of returning on the first
FirstMatch_Last(secrets, name, tags) ==
    IF \E i \in 1..Len(secrets) : Matches(secrets[i], name, tags)
    THEN CHOOSE i \in 1..Len(secrets) :
             /\ Matches(secrets[i], name, tags)
             /\ \A j \in (i + 1)..Len(secrets) : ~Matches(secrets[j], name, tags)
    ELSE 0

\* the entry the loop of client.go:165-173 returns on: its index, 0 when the loop runs out
FirstMatch(secrets, name, tags) ==
    IF \E i \in 1..Len(secrets) : Matches(secrets[i], name, tags)
    THEN CHOOSE i \in 1..Len(secrets) :
             /\ Matches(secrets[i], name, tags)
             /\ \A j \in 1..(i - 1) : ~Matches(secrets[j], name, tags)
    ELSE 0

\* a plausible slip: the local verdict is reported in the words of a 404
NotFoundError_AsAPIError(name) == APIErrorText(404, <<"not found">>)

\* the error value of client.go:175
NotFoundError(name) ==
    <<"secret '">> \o name \o <<"' not found with specified tags">>

GetGroupEndpoint(name) == <<"/", "api", "/", "v1", "/", "groups", "/">> \o PathEscape(name)

\* GetGroup from the return of doRequest on, client.go:182-192
GetGroupReturn(reply) ==
    LET r == doRequestReturn(reply) IN
    IF r.err # Empty THEN r
    ELSE LET e == UnmarshalError(r.val[1], GroupFits(r.val[1]), "Group") IN
         IF e # Empty
         THEN Returned(189, <<"failed to parse group response: ">> \o e, <<>>)
         ELSE Returned(192, Empty, <<GroupOf(r.val[1])>>)

PullGroupSecretsEndpoint(name) ==
    <<"/", "api", "/", "v1", "/", "groups", "/">> \o PathEscape(name) \o <<"/", "secrets">>

PullGroupSecretsParams == MapSet(EmptyMap, "format", <<"json">>)

\* PullGroupSecrets from the return of doRequest on, client.go:201-211
PullGroupSecretsReturn(reply) ==
    LET r == doRequestReturn(reply) IN
    IF r.err # Empty THEN r
    ELSE LET e == UnmarshalError(r.val[1], GroupSecretsFits(r.val[1]), "GroupSecrets") IN
         IF e # Empty
         THEN Returned(208, <<"failed to parse group secrets response: ">> \o e, <<>>)
         ELSE Returned(211, Empty, <<GroupSecretsOf(r.val[1])>>)

----------------------------------------------------------------------------
(* Bounds and the values the operations and the server are tried with *)

\* the most trailing slashes a base URL is given with
MaxSlashes == 2

\* the most entries a secrets list holds
MaxList == 2

RECURSIVE Slashes(_)
Slashes(n) == IF n = 0 THEN <<>> ELSE <<"/">> \o Slashes(n - 1)

BaseHost == <<"https:", "/", "/", "api.example.com">>

\* base URLs: the host with 0..MaxSlashes trailing slashes, and one url.Parse refuses
BaseURLs ==
    {BaseHost \o Slashes(n) : n \in 0..MaxSlashes}
    \cup {<<"https:", "/", "/", "api", "\n", "example.com">>}

APIKeys == {<<"vz_key">>}

Prod == <<"prod">>

SecretIDs == {<<"s1">>, <<"s", "\n", "9">>}
Versions == {<<>>, <<2>>}
FindNames == {<<"d", "b">>, Empty}
RequiredTags ==
    {EmptyMap,
     [env |-> Prod],
     [env |-> Empty],
     [env |-> Prod, app |-> <<"a&b">>],
     [limit |-> <<"5">>],
     [search |-> <<"zz">>]}
Searches == {Empty, <<"d", "b">>}
Limits == {-1, 0, 100}
GroupNames == {<<"x">>, <<"prod", " ", "api">>, <<"a", "/", "b">>}

Stamp == <<"2024-01-01T00:00:00Z">>

TagsJSON(tags) == JObj([k \in DOMAIN tags |-> JStr(tags[k])])

\* a Secret as the list endpoint writes it: no value
EntryJSON(id, keyName, tags) ==
    JObj([id |-> JStr(id), key_name |-> JStr(keyName), tags |-> tags,
          version |-> JNum(3), created_at |-> JStr(Stamp), updated_at |-> JStr(Stamp)])

\* a Secret as GET /api/v1/secrets/{id} writes it
SecretJSON(id, keyName, value, tags) ==
    JObj([id |-> JStr(id), key_name |-> JStr(keyName), value |-> JStr(value),
          description |-> JStr(<<"database password">>), tags |-> tags,
          version |-> JNum(3), created_at |-> JStr(Stamp), updated_at |-> JStr(Stamp)])

ListEntries ==
    {EntryJSON(<<"s1">>, <<"D", "b">>, TagsJSON([env |-> Prod, app |-> <<"a&b">>])),
     EntryJSON(<<"s3">>, <<"d", "c">>, TagsJSON([env |-> Prod])),
     EntryJSON(<<"s4">>, <<"D", "B">>, TagsJSON([env |-> <<"dev">>])),
     EntryJSON(<<"s5">>, <<"d", "b">>, JNull),
     EntryJSON(<<"s", "\n", "6">>, <<"d", "B">>, TagsJSON([env |-> Prod]))}

ListsUpTo(n) == UNION {[1..m -> ListEntries] : m \in 0..n}

ListJSON(entries) == JObj([secrets |-> JArr(entries), total |-> JNum(Len(entries))])

ListBodies == {ListJSON(l) : l \in ListsUpTo(MaxList)}

CommonBodies ==
    {NotJSON(<<"Internal Server Error">>),
     JNull,
     JObj(EmptyMap),
     JObj([error |-> JStr(<<"not found">>)]),
     JObj([error |-> JStr(Empty)]),
     JObj([error |-> JNum(5)])}

SecretBodies ==
    {SecretJSON(<<"s1">>, <<"D", "b">>, <<"hunter2">>, TagsJSON([env |-> Prod, app |-> <<"a&b">>])),
     SecretJSON(<<"s2">>, <<"d", "b">>, Empty, TagsJSON(EmptyMap)),
     JObj([value |-> JStr(<<"hunter2">>)]),
     JObj([id |-> JNum(7)])}

GroupBodies ==
    {JObj([id |-> JStr(<<"g1">>), name |-> JStr(<<"x">>), description |-> JStr(<<"api secrets">>),
           tags |-> TagsJSON([env |-> Prod]), created_at |-> JStr(Stamp),
           updated_at |-> JStr(Stamp)]),
     JObj([tags |-> JStr(<<"env=prod">>)])}

GroupSecretsBodies ==
    {JObj([group |-> JStr(<<"g">>), tags |-> JObj(EmptyMap),
           secrets |-> JObj([A |-> JStr(<<"1">>), B |-> JStr(<<"2">>)]), count |-> JNum(2)]),
     JObj([group |-> JStr(<<"g">>), count |-> JStr(<<"2">>)])}

OkStatuses == {200, 399}
ErrorStatuses == {400, 404, 500}

\* what can come back for one request: no response, or any status with a body that is
\* common to all endpoints or one of the endpoint's own
Replies(bodies) ==
    {TransportFailure, BodyReadFailure}
    \cup {Response(st, b) : st \in OkStatuses \cup ErrorStatuses, b \in CommonBodies \cup bodies}

\* what HTTPClient.Do returns for the request it was handed last, for each of these
Answers(possible) == {Do(requests[Len(requests)], reply) : reply \in possible}

\* the same for the list endpoint, whose many bodies come with the statuses below 400
ListReplies ==
    Replies({ListJSON(<<>>)}) \cup {Response(st, b) : st \in OkStatuses, b \in ListBodies}

----------------------------------------------------------------------------
(* The client as a state machine: NewClient, then one operation, which     *)
(* runs up to HTTPClient.Do, blocks, and runs on when Do returns.          *)

NoClient == [BaseURL |-> Empty, APIKey |-> Empty, Timeout |-> 0]
NotGiven == [baseURL |-> Empty, apiKey |-> Empty]
NoCall ==
    [op |-> "none", secretID |-> Empty, version |-> <<>>, name |-> Empty,
     tags |-> EmptyMap, search |-> Empty, limit |-> 0]
TmIdle == [secretTags |-> EmptyMap, requiredTags |-> EmptyMap, applied |-> FALSE, result |-> FALSE]
NoAttr == [state |-> "null", value |-> Empty]
NoRead ==
    [kind |-> "none", client |-> <<>>, configure |-> <<>>,
     config |-> [name |-> Empty, tags |-> EmptyMap], calls |-> <<>>,
     group |-> <<>>, diagnostics |-> <<>>, state |-> <<>>]
CfgIdle ==
    [env |-> [VEZOR_API_KEY |-> <<>>, VEZOR_API_URL |-> <<>>],
     config |-> [api_key |-> NoAttr, api_url |-> NoAttr],
     configured |-> FALSE,
     errors |-> <<>>,
     DataSourceData |-> <<>>,
     ResourceData |-> <<>>]

\* doRequest up to HTTPClient.Do, client.go:73-87: the URL is built; the request is
\* handed to Do, or http.NewRequest fails and the operation returns
Send(endpoint, params, awaiting) ==
    LET reqURL == RequestURL(client, endpoint, params) IN
    /\ built' = Append(built, reqURL)
    /\ IF ValidURL(reqURL)
       THEN /\ requests' = Append(requests, NewRequest(client, reqURL, params))
            /\ pc' = awaiting
            /\ outcome' = outcome
       ELSE /\ requests' = requests
            /\ pc' = "done"
            /\ outcome' = CreateFailure(reqURL)

CallNewClient ==
    /\ pc = "new"
    /\ \E baseURL \in BaseURLs, apiKey \in APIKeys :
          /\ given' = [baseURL |-> baseURL, apiKey |-> apiKey]
          /\ client' = NewClient(baseURL, apiKey)
    /\ pc' = "idle"
    /\ UNCHANGED <<ds, tm, pcfg, call, built, requests, replies, outcome>>

CallGetSecret ==
    /\ pc = "idle"
    /\ \E secretID \in SecretIDs, version \in Versions :
          /\ call' = [NoCall EXCEPT !.op = "GetSecret", !.secretID = secretID,
                                    !.version = version]
          /\ Send(GetSecretEndpoint(secretID), GetSecretParams(version), "GetSecret")
    /\ UNCHANGED <<ds, tm, pcfg, client, given, replies>>

\* a plausible slip: a request that failed in transport is sent again
ReturnGetSecret_Retry ==
    /\ pc = "GetSecret"
    /\ \E reply \in Answers(Replies(SecretBodies)) :
          /\ replies' = Append(replies, reply)
          /\ IF reply.kind = "transport" /\ Len(requests) < 3
             THEN /\ built' = Append(built, built[Len(built)])
                  /\ requests' = Append(requests, requests[Len(requests)])
                  /\ pc' = pc
                  /\ outcome' = outcome
             ELSE /\ outcome' = GetSecretReturn(reply)
                  /\ pc' = "done"
                  /\ UNCHANGED <<built, requests>>
    /\ UNCHANGED <<ds, tm, pcfg, client, given, call>>

\* GetSecret from the return of HTTPClient.Do on, client.go:117-127
ReturnGetSecret ==
    /\ pc = "GetSecret"
    /\ \E reply \in Answers(Replies(SecretBodies)) :
          /\ replies' = Append(replies, reply)
          /\ outcome' = GetSecretReturn(reply)
    /\ pc' = "done"
    /\ UNCHANGED <<ds, tm, pcfg, client, given, call, built, requests>>

CallListSecrets ==
    /\ pc = "idle"
    /\ \E tags \in RequiredTags, search \in Searches, limit \in Limits :
          /\ call' = [NoCall EXCEPT !.op = "ListSecrets", !.tags = tags,
                                    !.search = search, !.limit = limit]
          /\ Send(ListSecretsEndpoint, ListSecretsParams(tags, search, limit), "ListSecrets")
    /\ UNCHANGED <<ds, tm, pcfg, client, given, replies>>

ReturnListSecrets ==
    /\ pc = "ListSecrets"
    /\ \E reply \in Answers(ListReplies) :
          /\ replies' = Append(replies, reply)
          /\ outcome' = ListSecretsReturn(reply)
    /\ pc' = "done"
    /\ UNCHANGED <<ds, tm, pcfg, client, given, call, built, requests>>

\* FindSecret up to the Do of its ListSecrets call, client.go:157-159
CallFindSecret ==
    /\ pc = "idle"
    /\ \E name \in FindNames, tags \in RequiredTags :
          /\ call' = [NoCall EXCEPT !.op = "FindSecret", !.name = name, !.tags = tags]
          /\ Send(ListSecretsEndpoint, ListSecretsParams(tags, name, FindSecretLimit),
                  "FindSecret.ListSecrets")
    /\ UNCHANGED <<ds, tm, pcfg, client, given, replies>>

\* FindSecret from the return of that Do up to the Do of its GetSecret call or to its
\* own return, client.go:159-175
ReturnFindSecretList ==
    /\ pc = "FindSecret.ListSecrets"
    /\ \E reply \in Answers(ListReplies) :
          LET resp == ListSecretsReturn(reply)
              secrets == resp.val[1].Secrets
              i == FirstMatch(secrets, call.name, call.tags)
          IN  /\ replies' = Append(replies, reply)
              /\ IF resp.err # Empty
                 THEN /\ outcome' = Returned(161, resp.err, <<>>)
                      /\ pc' = "done"
                      /\ UNCHANGED <<built, requests>>
                 ELSE IF i = 0
                 THEN /\ outcome' = Returned(175, NotFoundError(call.name), <<>>)
                      /\ pc' = "done"
                      /\ UNCHANGED <<built, requests>>
                 ELSE Send(GetSecretEndpoint(secrets[i].ID), GetSecretParams(<<>>),
                           "FindSecret.GetSecret")
    /\ UNCHANGED <<ds, tm, pcfg, client, given, call>>

\* FindSecret returns what its GetSecret call returns, client.go:170
ReturnFindSecretGet ==
    /\ pc = "FindSecret.GetSecret"
    /\ \E reply \in Answers(Replies(SecretBodies)) :
          /\ replies' = Append(replies, reply)
          /\ outcome' = GetSecretReturn(reply)
    /\ pc' = "done"
    /\ UNCHANGED <<ds, tm, pcfg, client, given, call, built, requests>>

CallGetGroup ==
    /\ pc = "idle"
    /\ \E name \in GroupNames :
          /\ call' = [NoCall EXCEPT !.op = "GetGroup", !.name = name]
          /\ Send(GetGroupEndpoint(name), EmptyMap, "GetGroup")
    /\ UNCHANGED <<ds, tm, pcfg, client, given, replies>>

ReturnGetGroup ==
    /\ pc = "GetGroup"
    /\ \E reply \in Answers(Replies(GroupBodies)) :
          /\ replies' = Append(replies, reply)
          /\ outcome' = GetGroupReturn(reply)
    /\ pc' = "done"
    /\ UNCHANGED <<ds, tm, pcfg, client, given, call, built, requests>>

CallPullGroupSecrets ==
    /\ pc = "idle"
    /\ \E name \in GroupNames :
          /\ call' = [NoCall EXCEPT !.op = "PullGroupSecrets", !.name = name]
          /\ Send(PullGroupSecretsEndpoint(name), PullGroupSecretsParams, "PullGroupSecrets")
    /\ UNCHANGED <<ds, tm, pcfg, client, given, replies>>

ReturnPullGroupSecrets ==
    /\ pc = "PullGroupSecrets"
    /\ \E reply \in Answers(Replies(GroupSecretsBodies)) :
          /\ replies' = Append(replies, reply)
          /\ outcome' = PullGroupSecretsReturn(reply)
    /\ pc' = "done"
    /\ UNCHANGED <<ds, tm, pcfg, client, given, call, built, requests>>

Init ==
    /\ tm = TmIdle
    /\ pcfg = CfgIdle
    /\ client = NoClient
    /\ given = NotGiven
    /\ call = NoCall
    /\ pc = "new"
    /\ built = <<>>
    /\ requests = <<>>
    /\ replies = <<>>
    /\ outcome = NothingReturned
    /\ ds = NoRead

Next ==
    \/ CallNewClient
    \/ CallGetSecret
    \/ ReturnGetSecret
    \/ CallListSecrets
    \/ ReturnListSecrets
    \/ CallFindSecret
    \/ ReturnFindSecretList
    \/ ReturnFindSecretGet
    \/ CallGetGroup
    \/ ReturnGetGroup
    \/ CallPullGroupSecrets
    \/ ReturnPullGroupSecrets

Spec == Init /\ [][Next]_vars

----------------------------------------------------------------------------
(* tagsMatch on its own: every pair of mappings over two keys *)

TagKeys == {"env", "app"}
TagValues == {Empty, <<"prod">>, <<"dev">>}
TagMaps == MapsOver(TagKeys, TagValues)

ApplyTagsMatch ==
    /\ ~tm.applied
    /\ tm' = [tm EXCEPT !.applied = TRUE,
                        !.result = tagsMatch(tm.secretTags, tm.requiredTags)]
    /\ UNCHANGED <<ds, pcfg, clientVars>>

InitTags ==
    /\ tm \in [secretTags : TagMaps, requiredTags : TagMaps, applied : {FALSE}, result : {FALSE}]
    /\ pcfg = CfgIdle
    /\ client = NoClient
    /\ given = NotGiven
    /\ call = NoCall
    /\ pc = "new"
    /\ built = <<>>
    /\ requests = <<>>
    /\ replies = <<>>
    /\ outcome = NothingReturned
    /\ ds = NoRead

NextTags == ApplyTagsMatch

SpecTags == InitTags /\ [][NextTags]_vars

----------------------------------------------------------------------------
(* Provider Configure, provider.go:62-100 *)

\* os.Getenv on a variable that is unset (<<>>) or set to a value (<<value>>)
Getenv(variable) == IF variable # <<>> THEN variable[1] ELSE Empty

\* types.String: null, unknown or a known value
IsNull(attr) == attr.state = "null"
ValueString(attr) == IF attr.state = "known" THEN attr.value ELSE Empty
Known(value) == [state |-> "known", value |-> value]
Unknown == [state |-> "unknown", value |-> Empty]

DefaultAPIURL == <<"https:", "/", "/", "api.vezor.io">>

\* a plausible slip: the environment is consulted last and wins
ResolveAPIKey_EnvWins(config, env) ==
    IF Getenv(env.VEZOR_API_KEY) # Empty
    THEN Getenv(env.VEZOR_API_KEY)
    ELSE ValueString(config.api_key)

\* apiKey, provider.go:71-75
ResolveAPIKey(config, env) ==
    IF ~IsNull(config.api_key)
    THEN ValueString(config.api_key)
    ELSE Getenv(env.VEZOR_API_KEY)

\* apiURL, provider.go:85-92
ResolveAPIURL(config, env) ==
    IF ~IsNull(config.api_url)
    THEN ValueString(config.api_url)
    ELSE IF Getenv(env.VEZOR_API_URL) # Empty
         THEN Getenv(env.VEZOR_API_URL)
         ELSE DefaultAPIURL

Configure ==
    /\ ~pcfg.configured
    /\ LET apiKey == ResolveAPIKey(pcfg.config, pcfg.env)
           apiURL == ResolveAPIURL(pcfg.config, pcfg.env)
           vezorClient == NewClient(apiURL, apiKey)
       IN  IF apiKey = Empty
           THEN /\ pcfg' = [pcfg EXCEPT !.configured = TRUE,
                                        !.errors = Append(@, "Missing API Key")]
                /\ UNCHANGED <<client, given, pc>>
           ELSE /\ pcfg' = [pcfg EXCEPT !.configured = TRUE,
                                        !.DataSourceData = <<vezorClient>>,
                                        !.ResourceData = <<vezorClient>>]
                /\ client' = vezorClient
                /\ given' = [baseURL |-> apiURL, apiKey |-> apiKey]
                /\ pc' = "idle"
    /\ UNCHANGED <<ds, tm, call, built, requests, replies, outcome>>

EnvKeys == {<<>>, <<Empty>>, <<<<"env_key">>>>}
EnvURLs == {<<>>, <<Empty>>, <<<<"https:", "/", "/", "env.example">>>>}
AttrKeys == {NoAttr, Unknown, Known(Empty), Known(<<"cfg_key">>)}
AttrURLs == {NoAttr, Unknown, Known(Empty), Known(<<"https:", "/", "/", "cfg.example", "/">>)}

InitCfg ==
    /\ tm = TmIdle
    /\ \E ek \in EnvKeys, eu \in EnvURLs, ak \in AttrKeys, au \in AttrURLs :
          pcfg = [CfgIdle EXCEPT !.env = [VEZOR_API_KEY |-> ek, VEZOR_API_URL |-> eu],
                                 !.config = [api_key |-> ak, api_url |-> au]]
    /\ client = NoClient
    /\ given = NotGiven
    /\ call = NoCall
    /\ pc = "new"
    /\ built = <<>>
    /\ requests = <<>>
    /\ replies = <<>>
    /\ outcome = NothingReturned
    /\ ds = NoRead

NextCfg == Configure

SpecCfg == InitCfg /\ [][NextCfg]_vars

----------------------------------------------------------------------------
(* The data sources, group_data_source.go and secret_data_source.go.  A    *)
(* Read runs up to the HTTPClient.Do of a client call, blocks, and runs on *)
(* when Do returns, as the client's own operations do.                     *)

\* types.StringValue is Known; types.Int64Value
Int64Value(n) == [state |-> "known", value |-> n]

\* types.MapValueFrom(ctx, types.StringType, m): the null Map for a nil m, else a known
\* Map with one String element for each key of m
MapValueFrom(m) ==
    IF m = NilMap THEN [state |-> "null", elements |-> <<>>]
    ELSE [state |-> "known", elements |-> [k \in DOMAIN m |-> Known(m[k])]]

\* resp.Diagnostics.AddError(summary, detail)
AddError(d, summary, detail) ==
    [d EXCEPT !.diagnostics =
         Append(@, [severity |-> "error", summary |-> summary, detail |-> detail])]

\* a ProviderData that is no *client.Client: a Go string
NotAClient == [string |-> <<"https://api.vezor.io">>]

\* the type assertion req.ProviderData.(*client.Client) and %T of the value
IsClient(x) == DOMAIN x = {"BaseURL", "APIKey", "Timeout"}
TypeOf(x) == IF IsClient(x) THEN "*client.Client" ELSE "string"

\* Configure of either data source, group_data_source.go:79-95 and
\* secret_data_source.go:78-94; providerData is <<>> for nil, <<x>> for a value x
DataSourceConfigure(d, providerData) ==
    IF providerData = <<>> THEN d
    ELSE IF ~IsClient(providerData[1])
    THEN [d EXCEPT !.configure =
              Append(@, [severity |-> "error",
                         summary |-> "Unexpected Data Source Configure Type",
                         detail |-> <<"Expected *client.Client, got: ", TypeOf(providerData[1]),
                                      ". Please report this issue to the provider developers.">>])]
    ELSE [d EXCEPT !.client = providerData]

\* GroupDataSource.Configure, group_data_source.go:79-95, with no provider data, with
\* the provider's client or with a value of another type
GroupDataSourceConfigure ==
    /\ pc = "idle"
    /\ ds.kind = "none"
    /\ \E providerData \in {<<>>, <<client>>, <<NotAClient>>} :
          ds' = DataSourceConfigure([NoRead EXCEPT !.kind = "vezor_group"], providerData)
    /\ UNCHANGED <<tm, pcfg, clientVars>>

\* SecretDataSource.Configure, secret_data_source.go:78-94
SecretDataSourceConfigure ==
    /\ pc = "idle"
    /\ ds.kind = "none"
    /\ \E providerData \in {<<>>, <<client>>, <<NotAClient>>} :
          ds' = DataSourceConfigure([NoRead EXCEPT !.kind = "vezor_secret"], providerData)
    /\ UNCHANGED <<tm, pcfg, clientVars>>

\* the attributes of vezor_group, group_data_source.go:46-74
GroupSchema == {"id", "name", "description", "tags", "secrets", "secret_count"}

\* the diagnostic of group_data_source.go:112-115
GetGroupDiagnostic(d, err) ==
    AddError(d, "Unable to Read Group",
             <<"Unable to read group '">> \o d.config.name \o <<"': ">> \o err)

\* the diagnostic of group_data_source.go:122-125
PullGroupSecretsDiagnostic(d, err) ==
    AddError(d, "Unable to Pull Group Secrets",
             <<"Unable to pull secrets for group '">> \o d.config.name \o <<"': ">> \o err)

\* the model Read saves, group_data_source.go:129-152
GroupState(group, groupSecrets) ==
    [id |-> Known(group.ID),
     name |-> Known(group.Name),
     description |-> Known(group.Description),
     secret_count |-> Int64Value(groupSecrets.Count),
     tags |-> MapValueFrom(group.Tags),
     secrets |-> MapValueFrom(groupSecrets.Secrets)]

\* Read from the return of GetGroup on when GetGroup succeeded, group_data_source.go:119-120:
\* up to the Do of PullGroupSecrets, or to the return when that request cannot be created
GroupReadPull(d, group) ==
    LET name == d.config.name
        reqURL == RequestURL(client, PullGroupSecretsEndpoint(name), PullGroupSecretsParams)
        called == [d EXCEPT !.group = group, !.calls = Append(@, "PullGroupSecrets")]
    IN  /\ Send(PullGroupSecretsEndpoint(name), PullGroupSecretsParams,
                "GroupRead.PullGroupSecrets")
        /\ ds' = IF ValidURL(reqURL) THEN called
                 ELSE PullGroupSecretsDiagnostic(called, CreateFailure(reqURL).err)

\* vezor_group Read up to the Do of its GetGroup call, group_data_source.go:98-110.  With
\* no client (d.client nil) GetGroup panics in doRequest on c.BaseURL, client.go:74
GroupReadCall ==
    /\ pc = "idle"
    /\ ds.kind = "vezor_group"
    /\ ds.calls = <<>>
    /\ \E name \in GroupNames :
          LET reqURL == RequestURL(client, GetGroupEndpoint(name), EmptyMap)
              called == [ds EXCEPT !.config.name = name, !.calls = <<"GetGroup">>]
          IN  /\ call' = [NoCall EXCEPT !.op = "GroupRead", !.name = name]
              /\ IF ds.client = <<>>
                 THEN /\ ds' = called
                      /\ pc' = "panic"
                      /\ UNCHANGED <<built, requests, outcome>>
                 ELSE /\ ds.client = <<client>>
                      /\ Send(GetGroupEndpoint(name), EmptyMap, "GroupRead.GetGroup")
                      /\ ds' = IF ValidURL(reqURL) THEN called
                               ELSE GetGroupDiagnostic(called, CreateFailure(reqURL).err)
    /\ UNCHANGED <<tm, pcfg, client, given, replies>>

\* a plausible slip: no return after the first diagnostic, the group's secrets are
\* pulled all the same
GroupReadGetGroupReturn_NoReturn ==
    /\ pc = "GroupRead.GetGroup"
    /\ \E reply \in Answers(Replies(GroupBodies)) :
          LET r == GetGroupReturn(reply) IN
          /\ replies' = Append(replies, reply)
          /\ IF r.err # Empty
             THEN GroupReadPull(GetGroupDiagnostic(ds, r.err), <<GroupOf(JNull)>>)
             ELSE GroupReadPull(ds, r.val)
    /\ UNCHANGED <<tm, pcfg, client, given, call>>

\* Read from the return of that Do on, group_data_source.go:110-120
GroupReadGetGroupReturn ==
    /\ pc = "GroupRead.GetGroup"
    /\ \E reply \in Answers(Replies(GroupBodies)) :
          LET r == GetGroupReturn(reply) IN
          /\ replies' = Append(replies, reply)
          /\ IF r.err # Empty
             THEN /\ ds' = GetGroupDiagnostic(ds, r.err)
                  /\ outcome' = r
                  /\ pc' = "done"
                  /\ UNCHANGED <<built, requests>>
             ELSE GroupReadPull(ds, r.val)
    /\ UNCHANGED <<tm, pcfg, client, given, call>>

\* Read from the return of the Do of PullGroupSecrets on, group_data_source.go:120-152
GroupReadPullGroupSecretsReturn ==
    /\ pc = "GroupRead.PullGroupSecrets"
    /\ \E reply \in Answers(Replies(GroupSecretsBodies)) :
          LET r == PullGroupSecretsReturn(reply) IN
          /\ replies' = Append(replies, reply)
          /\ outcome' = r
          /\ ds' = IF r.err # Empty
                   THEN PullGroupSecretsDiagnostic(ds, r.err)
                   ELSE [ds EXCEPT !.state = <<GroupState(ds.group[1], r.val[1])>>]
    /\ pc' = "done"
    /\ UNCHANGED <<tm, pcfg, client, given, call, built, requests>>

\* the diagnostic of secret_data_source.go:116-119
FindSecretDiagnostic(d, err) ==
    AddError(d, "Unable to Read Secret",
             <<"Unable to read secret '">> \o d.config.name \o <<"': ">> \o err)

\* the model Read saves, secret_data_source.go:123-139
SecretState(secret) ==
    [id |-> Known(secret.ID),
     name |-> Known(secret.KeyName),
     value |-> Known(secret.Value),
     description |-> Known(secret.Description),
     version |-> Int64Value(secret.Version),
     tags |-> MapValueFrom(secret.Tags)]

\* the record GET /api/v1/secrets/{id} holds for an entry of the list: the entry with
\* its value and description
RecordJSON(entry) ==
    JObj(MapSet(MapSet(entry.v, "value", JStr(<<"hunter2">>)),
                "description", JStr(<<"database password">>)))

SecretRecords == {RecordJSON(e) : e \in ListEntries}

\* what can come back for the GetSecret of a Read
SecretReadReplies ==
    Replies(SecretBodies) \cup {Response(200, b) : b \in SecretRecords}

\* vezor_secret Read up to the Do of FindSecret's ListSecrets call,
\* secret_data_source.go:97-114 and client.go:157-159.  With no client (d.client nil)
\* FindSecret panics in doRequest on c.BaseURL, client.go:74
SecretReadCall ==
    /\ pc = "idle"
    /\ ds.kind = "vezor_secret"
    /\ ds.calls = <<>>
    /\ \E name \in FindNames, tags \in RequiredTags :
          LET params == ListSecretsParams(tags, name, FindSecretLimit)
              reqURL == RequestURL(client, ListSecretsEndpoint, params)
              called == [ds EXCEPT !.config.name = name, !.config.tags = tags,
                                   !.calls = <<"FindSecret">>]
          IN  /\ call' = [NoCall EXCEPT !.op = "SecretRead", !.name = name, !.tags = tags]
              /\ IF ds.client = <<>>
                 THEN /\ ds' = called
                      /\ pc' = "panic"
                      /\ UNCHANGED <<built, requests, outcome>>
                 ELSE /\ ds.client = <<client>>
                      /\ Send(ListSecretsEndpoint, params, "SecretRead.ListSecrets")
                      /\ ds' = IF ValidURL(reqURL) THEN called
                               ELSE FindSecretDiagnostic(called, CreateFailure(reqURL).err)
    /\ UNCHANGED <<tm, pcfg, client, given, replies>>

\* Read from the return of that Do up to the Do of FindSecret's GetSecret call or to the
\* return of Read, client.go:159-175 and secret_data_source.go:114-121
SecretReadListReturn ==
    /\ pc = "SecretRead.ListSecrets"
    /\ \E reply \in Answers(ListReplies) :
          LET resp == ListSecretsReturn(reply)
              secrets == resp.val[1].Secrets
              i == FirstMatch(secrets, call.name, call.tags)
          IN  /\ replies' = Append(replies, reply)
              /\ IF resp.err # Empty
                 THEN /\ outcome' = Returned(161, resp.err, <<>>)
                      /\ ds' = FindSecretDiagnostic(ds, resp.err)
                      /\ pc' = "done"
                      /\ UNCHANGED <<built, requests>>
                 ELSE IF i = 0
                 THEN /\ outcome' = Returned(175, NotFoundError(call.name), <<>>)
                      /\ ds' = FindSecretDiagnostic(ds, NotFoundError(call.name))
                      /\ pc' = "done"
                      /\ UNCHANGED <<built, requests>>
                 ELSE LET reqURL == RequestURL(client, GetSecretEndpoint(secrets[i].ID),
                                               GetSecretParams(<<>>))
                      IN  /\ Send(GetSecretEndpoint(secrets[i].ID), GetSecretParams(<<>>),
                                  "SecretRead.GetSecret")
                          /\ ds' = IF ValidURL(reqURL) THEN ds
                                   ELSE FindSecretDiagnostic(ds, CreateFailure(reqURL).err)
    /\ UNCHANGED <<tm, pcfg, client, given, call>>

\* Read from the return of the Do of GetSecret on, client.go:170 and
\* secret_data_source.go:114-139
SecretReadGetReturn ==
    /\ pc = "SecretRead.GetSecret"
    /\ \E reply \in Answers(SecretReadReplies) :
          LET r == GetSecretReturn(reply) IN
          /\ replies' = Append(replies, reply)
          /\ outcome' = r
          /\ ds' = IF r.err # Empty
                   THEN FindSecretDiagnostic(ds, r.err)
                   ELSE [ds EXCEPT !.state = <<SecretState(r.val[1])>>]
    /\ pc' = "done"
    /\ UNCHANGED <<tm, pcfg, client, given, call, built, requests>>

NextRead ==
    \/ CallNewClient
    \/ GroupDataSourceConfigure
    \/ SecretDataSourceConfigure
    \/ GroupReadCall
    \/ GroupReadGetGroupReturn
    \/ GroupReadPullGroupSecretsReturn
    \/ SecretReadCall
    \/ SecretReadListReturn
    \/ SecretReadGetReturn

SpecRead == Init /\ [][NextRead]_vars

----------------------------------------------------------------------------
(* Properties *)

\* the least member of a non-empty set of numbers
Least(S) == CHOOSE i \in S : \A j \in S : i <= j

\* C1 (as claimed): tagsMatch(C, T) is true exactly when every key of T is present in C
\* with an equal value; a key of T that C does not hold makes it false.
C1_TagsMatchIffEveryKeyPresentAndEqual ==
    tm.applied =>
        (tm.result <=>
            \A k \in DOMAIN tm.requiredTags :
                /\ k \in DOMAIN tm.secretTags
                /\ tm.secretTags[k] = tm.requiredTags[k])

\* FindSecret has its list: the reply to its first request, decoded by ListSecrets
FindSecretHasList ==
    /\ call.op = "FindSecret"
    /\ Len(replies) >= 1
    /\ ListSecretsReturn(replies[1]).err = Empty

ListedSecrets == ListSecretsReturn(replies[1]).val[1].Secrets

\* the entries of the list with the wanted name, whatever its case, and the required tags
MatchingEntries ==
    LET secrets == ListedSecrets IN
    {i \in 1..Len(secrets) :
        /\ EqualFold(secrets[i].KeyName, call.name)
        /\ tagsMatch(secrets[i].Tags, call.tags)}

\* the first of them in response order
FirstMatchingEntry == ListedSecrets[Least(MatchingEntries)]

\* C2: when ListSecrets succeeds and some entry has the name (case-insensitively) and
\* tags that satisfy tagsMatch, FindSecret calls GetSecret(id, nil) for the first such
\* entry in response order and for no other, and returns what that call returns.
C2_FindSecretFetchesFirstMatch ==
    (FindSecretHasList /\ MatchingEntries # {}) =>
        LET first == FirstMatchingEntry
            getURL == client.BaseURL \o <<"/", "api", "/", "v1", "/", "secrets", "/">> \o first.ID
        IN  /\ Len(built) = 2
            /\ built[2] = getURL
            /\ Len(requests) = (IF ValidURL(getURL) THEN 2 ELSE 1)
            /\ Len(requests) = 2 => requests[2].url = getURL /\ requests[2].query = EmptyMap
            /\ pc = "done" =>
                  outcome = (IF ValidURL(getURL)
                             THEN GetSecretReturn(replies[2])
                             ELSE CreateFailure(getURL))

\* C2's case: two entries match, the record of the first was fetched and returned
C2_Witness ==
    /\ pc = "done"
    /\ outcome.line = 127
    /\ Len(requests) = 2
    /\ FindSecretHasList
    /\ Cardinality(MatchingEntries) = 2
    /\ ListedSecrets[1].ID # ListedSecrets[2].ID

\* C3: when ListSecrets succeeds and no entry has both the name and the tags (the list
\* may be empty), FindSecret fails with "secret '<name>' not found with specified tags"
\* and calls no GetSecret: one request was made.
C3_FindSecretNotFound ==
    (FindSecretHasList /\ MatchingEntries = {}) =>
        /\ pc = "done"
        /\ outcome.err = <<"secret '">> \o call.name \o <<"' not found with specified tags">>
        /\ outcome.val = <<>>
        /\ Len(requests) = 1
        /\ Len(built) = 1

\* C3's case: an entry has the name but not the tags, and nothing was fetched
C3_Witness ==
    /\ pc = "done"
    /\ outcome.line = 175
    /\ FindSecretHasList
    /\ MatchingEntries = {}
    /\ \E i \in 1..Len(ListedSecrets) : EqualFold(ListedSecrets[i].KeyName, call.name)

\* the last reply of a finished operation is an HTTP response
LastReplyIsResponse ==
    /\ pc = "done"
    /\ replies # <<>>
    /\ replies[Len(replies)].kind = "http"

\* the body is JSON that parses into an ErrorResponse and has an error member
HasErrorMember(body) ==
    /\ body.k = "object"
    /\ "error" \in DOMAIN body.v
    /\ body.v["error"].k = "string"

\* C4 (as claimed): a response with status >= 400 fails the operation with
\* "API error (<status>): <message>", the message being the error member of the body when
\* the body has one, whatever its value, the empty string included, and the raw body
\* otherwise; a response with status < 400 gives no API error.
C4_APIErrorCarriesErrorMember ==
    LastReplyIsResponse =>
        LET reply == replies[Len(replies)] IN
        IF reply.status >= 400
        THEN /\ outcome.val = <<>>
             /\ outcome.err =
                   <<"API error (">> \o Itoa(reply.status) \o <<"): ">>
                   \o (IF HasErrorMember(reply.body)
                       THEN reply.body.v["error"].v
                       ELSE BodyText(reply.body))
        ELSE outcome.err = Empty \/ outcome.err[1] # "API error ("

\* the arguments ListSecrets runs with, called directly or by FindSecret
ListArguments ==
    IF call.op = "FindSecret"
    THEN [tags |-> call.tags, search |-> call.name, limit |-> FindSecretLimit]
    ELSE [tags |-> call.tags, search |-> call.search, limit |-> call.limit]

\* C5 (as claimed): the request of ListSecrets carries every tag as key=value with the
\* tag's own value, also a tag named search or limit; search when search is non-empty
\* and limit when limit > 0; and nothing else.
C5_ListRequestCarriesEveryTag ==
    (call.op \in {"ListSecrets", "FindSecret"} /\ requests # <<>>) =>
        LET q == requests[1].query
            a == ListArguments
        IN  /\ \A k \in DOMAIN a.tags : k \in DOMAIN q /\ q[k] = a.tags[k]
            /\ a.search # Empty => "search" \in DOMAIN q
            /\ a.limit > 0 => "limit" \in DOMAIN q
            /\ ("search" \in DOMAIN q /\ "search" \notin DOMAIN a.tags) =>
                  (a.search # Empty /\ q["search"] = a.search)
            /\ ("limit" \in DOMAIN q /\ "limit" \notin DOMAIN a.tags) =>
                  (a.limit > 0 /\ q["limit"] = Itoa(a.limit))
            /\ DOMAIN q \subseteq DOMAIN a.tags \cup {"search", "limit"}

\* what the operation makes of its i-th reply: FindSecret reads the first as ListSecrets
\* and the second as GetSecret
ReturnOf(i) ==
    CASE call.op = "GetSecret" -> GetSecretReturn(replies[i])
      [] call.op = "ListSecrets" -> ListSecretsReturn(replies[i])
      [] call.op = "FindSecret" /\ i = 1 -> ListSecretsReturn(replies[i])
      [] call.op = "FindSecret" /\ i # 1 -> GetSecretReturn(replies[i])
      [] call.op = "GetGroup" -> GetGroupReturn(replies[i])
      [] call.op = "PullGroupSecrets" -> PullGroupSecretsReturn(replies[i])

\* u starts with the pieces of prefix
StartsWith(u, prefix) == Len(u) >= Len(prefix) /\ SubSeq(u, 1, Len(prefix)) = prefix

\* no request follows a failure; FindSecret asks for the list first and for the secret
\* second, and for the secret only once it has the list
NoRequestAfterFailure ==
    /\ Len(replies) <= Len(requests)
    /\ Len(requests) <= Len(built)
    /\ Len(built) <= (IF call.op = "FindSecret" THEN 2 ELSE 1)
    /\ \A i \in 1..Len(replies) :
          ReturnOf(i).err # Empty =>
              /\ Len(replies) = i /\ Len(requests) = i /\ Len(built) = i
              /\ pc = "done"
              /\ outcome.err = ReturnOf(i).err
              /\ outcome.val = <<>>
    /\ Len(built) > Len(requests) =>
          /\ Len(built) = Len(requests) + 1
          /\ Len(replies) = Len(requests)
          /\ pc = "done"
          /\ outcome = CreateFailure(built[Len(built)])
    /\ call.op = "FindSecret" =>
          /\ Len(built) >= 1 =>
                StartsWith(built[1], client.BaseURL \o <<"/", "api", "/", "v1", "/", "secrets", "?">>)
          /\ Len(built) = 2 =>
                /\ FindSecretHasList
                /\ StartsWith(built[2], client.BaseURL \o <<"/", "api", "/", "v1", "/", "secrets", "/">>)

SingleRequestOps == {"GetSecret", "ListSecrets", "GetGroup", "PullGroupSecrets"}

\* C6 (as claimed): no operation retries; GetSecret, ListSecrets, GetGroup and
\* PullGroupSecrets each issue exactly one request per call, FindSecret at most two, the
\* list request first; after the first failure the operation returns it and issues nothing.
C6_ExactlyOneRequestPerCall ==
    /\ NoRequestAfterFailure
    /\ (pc = "done" /\ call.op \in SingleRequestOps) => Len(requests) = 1

\* C6 (amended): as above, but a single-request operation issues one request only when
\* http.NewRequest accepts the URL; when it refuses, the operation returns that failure
\* having issued none, and FindSecret then issues one request less.
C6_AtMostOneRequestPerCall ==
    /\ NoRequestAfterFailure
    /\ (pc = "done" /\ call.op \in SingleRequestOps) =>
          Len(requests) = (IF ValidURL(built[1]) THEN 1 ELSE 0)
    /\ (pc = "done" /\ call.op = "FindSecret") =>
          Len(requests) = Cardinality({i \in 1..Len(built) : ValidURL(built[i])})

\* C6's case: the second request of FindSecret failed in transport and was not repeated
C6_Witness ==
    /\ call.op = "FindSecret"
    /\ pc = "done"
    /\ Len(requests) = 2
    /\ replies[2].kind = "transport"
    /\ outcome.line = 89

\* the body is a JSON object with the members a Secret always has, each of its type
IsSecret(body) ==
    /\ body.k = "object"
    /\ {"id", "key_name", "tags", "version", "created_at", "updated_at"} \subseteq DOMAIN body.v
    /\ \A f \in DOMAIN body.v : body.v[f].k # "null"
    /\ SecretFits(body)

\* C7 (as claimed): on a response with status < 400 GetSecret fails with
\* "failed to parse secret response" whenever the body is not a Secret in JSON, be it
\* malformed text, {}, null or an object without the Secret members, and returns a Secret
\* only when the body is one.
C7_DecodeErrorUnlessSecret ==
    (call.op = "GetSecret" /\ LastReplyIsResponse /\ replies[Len(replies)].status < 400) =>
        LET body == replies[Len(replies)].body IN
        IF IsSecret(body)
        THEN outcome.err = Empty /\ outcome.val = <<SecretOf(body)>>
        ELSE /\ outcome.val = <<>>
             /\ outcome.err # Empty
             /\ outcome.err[1] = "failed to parse secret response: "

\* the text of FindSecret's own verdict, whatever the name in it
IsNotFoundText(err) ==
    /\ err # Empty
    /\ err[1] = "secret '"
    /\ err[Len(err)] = "' not found with specified tags"

\* C8: FindSecret reports not-found only once ListSecrets has succeeded; when ListSecrets
\* fails, FindSecret returns that very error; and the not-found error can be told from
\* every other error FindSecret returns, a 404 of either request included: it alone
\* reads "secret '...' not found with specified tags".
C8_NotFoundOnlyAfterListAndDistinct ==
    (call.op = "FindSecret" /\ pc = "done") =>
        /\ IsNotFoundText(outcome.err) => (FindSecretHasList /\ Len(replies) = 1)
        /\ (Len(replies) >= 1 /\ ListSecretsReturn(replies[1]).err # Empty) =>
              /\ outcome.err = ListSecretsReturn(replies[1]).err
              /\ outcome.val = <<>>
        /\ Len(requests) = 0 => outcome = CreateFailure(built[1])
        /\ IsNotFoundText(outcome.err) <=> outcome.line = 175
        /\ outcome.line = 175 =>
              outcome.err = <<"secret '">> \o call.name \o <<"' not found with specified tags">>

\* C8's case: the list came back with status 200 and empty, and FindSecret said not found
C8_Witness ==
    /\ call.op = "FindSecret"
    /\ pc = "done"
    /\ FindSecretHasList
    /\ replies[1].kind = "http" /\ replies[1].status = 200
    /\ ListedSecrets = <<>>
    /\ IsNotFoundText(outcome.err)

\* the endpoint and the parameters of the i-th URL the operation builds
ExpectedEndpoint(i) ==
    CASE call.op = "GetSecret" -> GetSecretEndpoint(call.secretID)
      [] call.op \in {"ListSecrets", "FindSecret"} /\ i = 1 -> ListSecretsEndpoint
      [] call.op = "FindSecret" /\ i # 1 ->
           GetSecretEndpoint(FirstMatchingEntry.ID)
      [] call.op = "GetGroup" -> GetGroupEndpoint(call.name)
      [] call.op = "PullGroupSecrets" -> PullGroupSecretsEndpoint(call.name)

ExpectedParams(i) ==
    CASE call.op = "GetSecret" -> GetSecretParams(call.version)
      [] call.op \in {"ListSecrets", "FindSecret"} /\ i = 1 ->
           ListSecretsParams(ListArguments.tags, ListArguments.search, ListArguments.limit)
      [] call.op = "FindSecret" /\ i # 1 -> EmptyMap
      [] call.op = "GetGroup" -> EmptyMap
      [] call.op = "PullGroupSecrets" -> PullGroupSecretsParams

\* C9: whatever the number of trailing slashes of the base URL given to NewClient, the
\* stored base URL has none, and every URL the client builds is the stored base URL, the
\* endpoint path and, only when there are parameters, "?" and the query: one slash at
\* the join.  Base https://api.example.com/ and GetGroup("x") give
\* https://api.example.com/api/v1/groups/x.
C9_BaseURLStrippedAndJoined ==
    pc # "new" =>
        LET base == client.BaseURL
            n == Len(base)
        IN  /\ base = <<>> \/ base[n] # "/"
            /\ \E k \in 0..Len(given.baseURL) : given.baseURL = base \o Slashes(k)
            /\ \A i \in 1..Len(built) :
                  LET params == ExpectedParams(i) IN
                  /\ built[i] = base \o ExpectedEndpoint(i)
                                \o (IF DOMAIN params = {} THEN <<>>
                                    ELSE <<"?">> \o Encode(params))
                  /\ built[i][n + 1] = "/"
                  /\ built[i][n + 2] # "/"
                  /\ (\E j \in 1..Len(built[i]) : built[i][j] = "?") <=> DOMAIN params # {}
            /\ (/\ given.baseURL = <<"https:", "/", "/", "api.example.com", "/">>
                /\ call.op = "GetGroup"
                /\ call.name = <<"x">>) =>
                  built = <<<<"https:", "/", "/", "api.example.com",
                              "/", "api", "/", "v1", "/", "groups", "/", "x">>>>

\* C9's case: a base URL given with two trailing slashes, and the URL of GetGroup built
C9_Witness ==
    /\ Len(given.baseURL) >= 2
    /\ given.baseURL[Len(given.baseURL)] = "/"
    /\ given.baseURL[Len(given.baseURL) - 1] = "/"
    /\ call.op = "GetGroup"
    /\ Len(requests) = 1

\* explicit attribute, then environment variable, then default.  An attribute is given
\* when it is not null, even if empty; a variable is given when it holds a non-empty
\* value, since os.Getenv reads an unset variable as empty.
Precedence(attr, variable, default) ==
    IF attr.state # "null" THEN attr.value
    ELSE IF variable # <<>> /\ variable[1] # Empty THEN variable[1]
    ELSE default

\* C10: Configure resolves the API key and the API URL each on its own, the explicit
\* attribute before the environment variable before the default, for an attribute that
\* is null, empty or non-empty and a variable that is unset, empty or non-empty; the URL
\* defaults to https://api.vezor.io and the key has no default, so that a key resolved
\* empty is the missing key.
C10_ConfigurePrecedence ==
    (/\ pcfg.configured
     /\ pcfg.config.api_key.state \in {"null", "known"}
     /\ pcfg.config.api_url.state \in {"null", "known"}) =>
        LET key == Precedence(pcfg.config.api_key, pcfg.env.VEZOR_API_KEY, Empty)
            url == Precedence(pcfg.config.api_url, pcfg.env.VEZOR_API_URL,
                              <<"https:", "/", "/", "api.vezor.io">>)
        IN  IF key = Empty
            THEN /\ pcfg.errors = <<"Missing API Key">>
                 /\ pcfg.DataSourceData = <<>>
                 /\ given = NotGiven
            ELSE /\ pcfg.errors = <<>>
                 /\ given = [baseURL |-> url, apiKey |-> key]
                 /\ pcfg.DataSourceData = <<client>>

\* C10's case: both the attribute and the variable hold a key and the attribute's is
\* used; the URL attribute is null and the variable's URL is used
C10_Witness ==
    /\ pcfg.configured
    /\ pcfg.config.api_key = Known(<<"cfg_key">>)
    /\ pcfg.env.VEZOR_API_KEY = <<<<"env_key">>>>
    /\ pcfg.config.api_url = NoAttr
    /\ pcfg.env.VEZOR_API_URL # <<>>
    /\ given.apiKey = <<"cfg_key">>
    /\ given.baseURL = <<"https:", "/", "/", "env.example">>

\* C11 (as claimed): whenever VEZOR_API_KEY holds a non-empty key, Configure creates a
\* client and hands it to the data sources, whatever the api_key attribute is; Configure
\* reports Missing API Key, creating no client and setting no data-source data, only when
\* neither the configuration nor the environment supplies a key.
C11_EnvKeyMakesAttributeOptional ==
    pcfg.configured =>
        LET envKey == IF pcfg.env.VEZOR_API_KEY # <<>> THEN pcfg.env.VEZOR_API_KEY[1] ELSE Empty
            attrKey == IF pcfg.config.api_key.state = "known"
                       THEN pcfg.config.api_key.value ELSE Empty
        IN  /\ envKey # Empty =>
                  /\ pcfg.errors = <<>>
                  /\ client # NoClient
                  /\ pcfg.DataSourceData = <<client>>
            /\ pcfg.errors # <<>> =>
                  /\ pcfg.errors = <<"Missing API Key">>
                  /\ envKey = Empty /\ attrKey = Empty
                  /\ client = NoClient
                  /\ pcfg.DataSourceData = <<>>

\* the group Read is over and saved its model
GroupReadSucceeded == ds.kind = "vezor_group" /\ pc = "done" /\ ds.state # <<>>

\* C12 (as claimed): after a successful Read the vezor_group data source holds the number
\* of secrets under the attribute named count, so that data.vezor_group.<name>.count is
\* the count PullGroupSecrets returned.
C12_GroupExposesCount ==
    GroupReadSucceeded =>
        /\ "count" \in GroupSchema
        /\ "count" \in DOMAIN ds.state[1]
        /\ ds.state[1]["count"] = Int64Value(outcome.val[1].Count)

\* what GetGroup and PullGroupSecrets returned to the group Read, from the replies
GetGroupResult == GetGroupReturn(replies[1])
PullGroupSecretsResult == PullGroupSecretsReturn(replies[2])

\* C13: vezor_group Read calls GetGroup first and PullGroupSecrets second, the second only
\* if the first succeeded; if either fails Read adds exactly one error diagnostic, leaves
\* the state unset and calls the client no further; state is written only if both
\* succeeded, with id, name, description and tags from the GetGroup response and secrets
\* and secret_count from the PullGroupSecrets response.  (A Read on a data source that
\* was given no client panics inside GetGroup: nothing is called after it, and neither a
\* diagnostic nor state is written.)
C13_GroupReadOrderAndNoPartialState ==
    ds.kind = "vezor_group" =>
        /\ ds.calls \in {<<>>, <<"GetGroup">>, <<"GetGroup", "PullGroupSecrets">>}
        /\ pc = "panic" =>
              /\ ds.client = <<>>
              /\ ds.calls = <<"GetGroup">>
              /\ requests = <<>>
        /\ pc # "panic" =>
              /\ Len(built) = Len(ds.calls)
              /\ ds.calls # <<>> => built[1] = client.BaseURL \o GetGroupEndpoint(ds.config.name)
        /\ Len(ds.calls) = 2 =>
              /\ Len(replies) >= 1
              /\ GetGroupResult.err = Empty
              /\ built[2] = client.BaseURL \o PullGroupSecretsEndpoint(ds.config.name)
                            \o <<"?", "format", "=", "json">>
        /\ pc # "done" => ds.diagnostics = <<>> /\ ds.state = <<>>
        /\ pc = "done" =>
              LET getFailed == Len(requests) = 0 \/ GetGroupResult.err # Empty
                  pullFailed == ~getFailed /\
                                (Len(requests) = 1 \/ PullGroupSecretsResult.err # Empty)
              IN  /\ getFailed =>
                        /\ ds.calls = <<"GetGroup">>
                        /\ Len(replies) <= 1
                        /\ Len(ds.diagnostics) = 1
                        /\ ds.diagnostics[1].severity = "error"
                        /\ ds.diagnostics[1].summary = "Unable to Read Group"
                        /\ ds.state = <<>>
                  /\ pullFailed =>
                        /\ Len(ds.diagnostics) = 1
                        /\ ds.diagnostics[1].severity = "error"
                        /\ ds.diagnostics[1].summary = "Unable to Pull Group Secrets"
                        /\ ds.state = <<>>
                  /\ (~getFailed /\ ~pullFailed) =>
                        LET group == GetGroupResult.val[1]
                            groupSecrets == PullGroupSecretsResult.val[1]
                            state == ds.state[1]
                        IN  /\ ds.diagnostics = <<>>
                            /\ ds.state # <<>>
                            /\ DOMAIN state = GroupSchema
                            /\ state.id = Known(group.ID)
                            /\ state.name = Known(group.Name)
                            /\ state.description = Known(group.Description)
                            /\ state.tags.state = "null" <=> group.Tags = NilMap
                            /\ state.tags.elements =
                                   [k \in Keys(group.Tags) |-> Known(group.Tags[k])]
                            /\ state.secrets.state = "null" <=> groupSecrets.Secrets = NilMap
                            /\ state.secrets.elements =
                                   [k \in Keys(groupSecrets.Secrets) |->
                                       Known(groupSecrets.Secrets[k])]
                            /\ state.secret_count.value = groupSecrets.Count

\* C13's case: GetGroup succeeded with a group, PullGroupSecrets failed on an API error,
\* and Read is over with one diagnostic and no state
C13_Witness ==
    /\ ds.kind = "vezor_group"
    /\ pc = "done"
    /\ Len(replies) = 2
    /\ GetGroupResult.val # <<>>
    /\ GetGroupResult.val[1].ID = <<"g1">>
    /\ replies[2].kind = "http" /\ replies[2].status = 404
    /\ Len(ds.diagnostics) = 1
    /\ ds.state = <<>>

\* the secret Read is over and saved its model
SecretReadSucceeded == ds.kind = "vezor_secret" /\ pc = "done" /\ ds.state # <<>>

\* the list entry FindSecret chose and the record GetSecret returned for it
ChosenEntry ==
    LET secrets == ListSecretsReturn(replies[1]).val[1].Secrets
    IN  secrets[FirstMatch(secrets, ds.config.name, ds.config.tags)]
FetchedRecord == GetSecretReturn(replies[2]).val[1]

\* the server answered the GetSecret with the record of the entry asked for, and the
\* record has the key name and the tags of the entry
ServerConsistent ==
    /\ FetchedRecord.ID = ChosenEntry.ID
    /\ FetchedRecord.KeyName = ChosenEntry.KeyName
    /\ FetchedRecord.Tags = ChosenEntry.Tags

\* C14 (as claimed): whenever vezor_secret Read succeeds against a server whose GetSecret
\* record has the key name and tags of the list entry with the same id, the name in the
\* state equals the configured name case-insensitively and the tags in the state hold
\* every configured tag key with its configured value, for every configured tag mapping,
\* tags with an empty value included.
C14_SecretStateAgreesWithConfiguration ==
    (SecretReadSucceeded /\ ServerConsistent) =>
        LET state == ds.state[1] IN
        /\ state.name.state = "known"
        /\ EqualFold(state.name.value, ds.config.name)
        /\ \A k \in DOMAIN ds.config.tags :
              /\ k \in DOMAIN state.tags.elements
              /\ state.tags.elements[k] = Known(ds.config.tags[k])

====
